---- MODULE Spec2Model ----
(***************************************************************************)
(* State-machine model of Advanced_database_editor.py: the SQLite table    *)
(* editor (MainWindow), its table model (SQLiteTableModel), the undo/redo  *)
(* manager (UndoRedoManager) and the database accessor (DatabaseManager).  *)
(* Storage is the content of the database files; every handler of the     *)
(* window is one action that runs to completion, exceptions included.      *)
(***************************************************************************)
EXTENDS Integers, Sequences, FiniteSets, TLC

VARIABLES
    storage,      \* [path -> [table name -> table]]: the database files
    db,           \* MainWindow.db: path of the open DatabaseManager, "" for None
    table_list,   \* MainWindow.table_list: the names shown in the list widget
    model,        \* MainWindow.model: the SQLiteTableModel (loaded = FALSE for None)
    undo_stack,   \* UndoRedoManager.undo_stack
    redo_stack,   \* UndoRedoManager.redo_stack
    last,         \* history: the handler that ran last, its result, the one before it
    pre,          \* history: storage and stacks before the last one / two undo-redo calls
    executed,     \* history: forward statements of logged commands that ran successfully
    born,         \* history: per command of undo_stack, the rowid its last INSERT produced
    tally,        \* history: counts of pushes, undos, redos while the run has that shape
    steps,        \* number of handler calls so far
    limit,        \* number of handler calls the run is followed for
    seen,         \* history: input, statements and log lines of the last handler call,
                  \* in the runs that record them (Unseen in the others)
    proxy         \* MainWindow.proxy_model with the header of table_view: the sort
                  \* order and the filter text between the model and the view

vars ==
    <<storage, db, table_list, model, undo_stack, redo_stack, last, pre, executed, born,
      tally, steps, limit, seen, proxy>>

-----------------------------------------------------------------------------
(* Bounds *)

MaxSteps == 7         \* handler calls in a run of Spec
MaxEditorSteps == 5   \* handler calls in a run of EditorSpec
MaxSwitchSteps == 8   \* handler calls in a run of SwitchSpec
MaxProxySteps == 5    \* handler calls in a run of ProxySpec

-----------------------------------------------------------------------------
(* Values: Python None / int / str as stored in SQLite cells *)

None == [ty |-> "null", v |-> 0]
IntV(n) == [ty |-> "int", v |-> n]
TextV(s) == [ty |-> "text", v |-> s]
RealV(x) == [ty |-> "real", v |-> x]

Dbs == {"db1", "db2"}
Tables == {"t"}

\* what the user can type into a cell
CellInputs == {"null", "a", "5"}

-----------------------------------------------------------------------------
(* Tables in storage *)

\* An entry of sqlite_master by name: type "table" or "view" ("" when the name is
\* free); alias is the INTEGER PRIMARY KEY column that names the rowid, of is
\* the table a view selects from
Absent ==
    [exists |-> FALSE, type |-> "", has_rowid |-> FALSE, cols |-> <<>>, schema |-> <<>>,
     pk |-> <<>>, alias |-> "", of |-> "", rows |-> <<>>]

\* CREATE TABLE t (age INTEGER): a plain rowid table
PlainTable(rows) ==
    [exists |-> TRUE, type |-> "table", has_rowid |-> TRUE, cols |-> <<"age">>,
     schema |-> [c \in {"age"} |-> "INTEGER"],
     pk |-> <<>>, alias |-> "", of |-> "", rows |-> rows]

Row(age) == [c \in {"age"} |-> age]

\* db1 holds table t with the row (rowid 1, age 5); db2 is a database without tables
InitStorage ==
    [d \in Dbs |->
        [t \in Tables |->
            IF d = "db1" THEN PlainTable((1 :> Row(IntV(5)))) ELSE Absent]]

\* CREATE TABLE p (id INTEGER PRIMARY KEY, score REAL): id names the rowid
KeyedTable(rows) ==
    [exists |-> TRUE, type |-> "table", has_rowid |-> TRUE, cols |-> <<"id", "score">>,
     schema |-> [c \in {"id", "score"} |-> IF c = "id" THEN "INTEGER" ELSE "REAL"],
     pk |-> <<"id">>, alias |-> "id", of |-> "", rows |-> rows]

KeyedRow(id, score) == [c \in {"id", "score"} |-> IF c = "id" THEN IntV(id) ELSE score]

\* CREATE VIEW v AS SELECT age FROM table
ViewOf(table) ==
    [exists |-> TRUE, type |-> "view", has_rowid |-> FALSE, cols |-> <<"age">>,
     schema |-> <<>>, pk |-> <<>>, alias |-> "", of |-> table, rows |-> <<>>]

\* the names of a database of EditorStorage, the free ones included
Names == {"t", "p", "v", "t_temp", "p_temp"}

\* db1 holds t with the row (rowid 1, age 5), p with the row (1, 5.0) and the
\* view v of t; db2 is a database without tables
EditorStorage ==
    [d \in Dbs |->
        [n \in Names |->
            IF d # "db1" THEN Absent
            ELSE CASE n = "t" -> PlainTable((1 :> Row(IntV(5))))
                   [] n = "p" -> KeyedTable((1 :> KeyedRow(1, RealV(5))))
                   [] n = "v" -> ViewOf("t")
                   [] OTHER -> Absent]]

SeqToSet(s) == {s[i] : i \in DOMAIN s}

MaxOf(S) == CHOOSE x \in S : \A y \in S : y <= x

\* the keys of a set of rowids in ascending order
RECURSIVE SortedKeys(_)
SortedKeys(S) ==
    IF S = {} THEN <<>>
    ELSE LET m == CHOOSE x \in S : \A y \in S : x <= y
         IN <<m>> \o SortedKeys(S \ {m})

\* the rowid SQLite gives to a row inserted without one: largest rowid + 1
NextRowid(tbl) == IF DOMAIN tbl.rows = {} THEN 1 ELSE MaxOf(DOMAIN tbl.rows) + 1

-----------------------------------------------------------------------------
(* SQL statements: the text the code composes, as records; params apart *)

\* the parts of a statement: col is the column set or added, where the columns of
\* the WHERE clause, cols / types a column list, other the second table named
\* (the source of a copy, the new name of a rename)
Sql(op, table, col, where, cols, types, other) ==
    [op |-> op, table |-> table, col |-> col, where |-> where, cols |-> cols,
     types |-> types, other |-> other]

UpdateSql(table, col, id_columns) == Sql("UPDATE", table, col, id_columns, <<>>, <<>>, "")
DeleteSql(table, id_columns) == Sql("DELETE", table, "", id_columns, <<>>, <<>>, "")
InsertDefaultSql(table) == Sql("INSERT", table, "", <<>>, <<>>, <<>>, "")
DropTableSql(table) == Sql("DROP", table, "", <<>>, <<>>, <<>>, "")
\* ALTER TABLE table ADD COLUMN name coltype
AddColumnSql(table, name, coltype) == Sql("ADDCOL", table, name, <<>>, <<>>, <<coltype>>, "")
\* CREATE TABLE table (c1 type1, ...)
CreateTableSql(table, cols, types) == Sql("CREATE", table, "", <<>>, cols, types, "")
\* INSERT INTO table SELECT c1, ... FROM source
CopyRowsSql(table, cols, source) == Sql("COPY", table, "", <<>>, cols, <<>>, source)
\* ALTER TABLE table RENAME TO new_name
RenameTableSql(table, new_name) == Sql("RENAME", table, "", <<>>, <<>>, <<>>, new_name)

\* WHERE c1=? AND c2=? ... against one row; a NULL parameter matches nothing
Matches(tbl, k, where, ids) ==
    \A i \in DOMAIN where :
        /\ ids[i].ty # "null"
        /\ IF where[i] = "rowid"
           THEN ids[i] = IntV(k)
           ELSE tbl.rows[k][where[i]] = ids[i]

WhereResolves(tbl, where) ==
    \A i \in DOMAIN where :
        \/ where[i] = "rowid" /\ tbl.has_rowid
        \/ where[i] \in SeqToSet(tbl.cols)

IsTable(dbc, name) == name \in DOMAIN dbc /\ dbc[name].exists /\ dbc[name].type = "table"

\* every view of the database selects from a table that is there (ALTER TABLE
\* ... RENAME fails with "error in view" otherwise)
ViewsResolve(dbc) ==
    \A v \in DOMAIN dbc :
        (dbc[v].exists /\ dbc[v].type = "view") => IsTable(dbc, dbc[v].of)

\* Whether the statement prepares and runs on the database content dbc
SqlOk(dbc, sql) ==
    CASE sql.op = "UPDATE" ->
            /\ IsTable(dbc, sql.table)
            /\ sql.col \in SeqToSet(dbc[sql.table].cols)
            /\ WhereResolves(dbc[sql.table], sql.where)
      [] sql.op = "DELETE" ->
            IsTable(dbc, sql.table) /\ WhereResolves(dbc[sql.table], sql.where)
      [] sql.op \in {"INSERT", "DROP"} -> IsTable(dbc, sql.table)
      [] sql.op = "ADDCOL" ->
            IsTable(dbc, sql.table) /\ sql.col \notin SeqToSet(dbc[sql.table].cols)
      [] sql.op = "CREATE" ->
            /\ sql.table \in DOMAIN dbc
            /\ ~dbc[sql.table].exists
            /\ sql.cols # <<>>
      [] sql.op = "COPY" ->
            /\ IsTable(dbc, sql.table)
            /\ IsTable(dbc, sql.other)
            /\ SeqToSet(sql.cols) \subseteq SeqToSet(dbc[sql.other].cols)
            /\ Len(sql.cols) = Len(dbc[sql.table].cols)
      [] sql.op = "RENAME" ->
            /\ IsTable(dbc, sql.table)
            /\ sql.other \in DOMAIN dbc
            /\ ~dbc[sql.other].exists
            /\ ViewsResolve(dbc)
      [] OTHER -> FALSE

\* The database content after a successful statement
SqlApply(dbc, sql, params) ==
    LET tbl == dbc[sql.table] IN
    CASE sql.op = "UPDATE" ->
            LET ids == SubSeq(params, 2, Len(params))
                hit == {k \in DOMAIN tbl.rows : Matches(tbl, k, sql.where, ids)}
            IN [dbc EXCEPT ![sql.table].rows =
                    [k \in DOMAIN tbl.rows |->
                        IF k \in hit THEN [tbl.rows[k] EXCEPT ![sql.col] = params[1]]
                        ELSE tbl.rows[k]]]
      [] sql.op = "DELETE" ->
            LET keep == {k \in DOMAIN tbl.rows : ~Matches(tbl, k, sql.where, params)}
            IN [dbc EXCEPT ![sql.table].rows = [k \in keep |-> tbl.rows[k]]]
      [] sql.op = "INSERT" ->
            LET k == NextRowid(tbl)
                new == [c \in SeqToSet(tbl.cols) |-> IF c = tbl.alias THEN IntV(k) ELSE None]
            IN [dbc EXCEPT ![sql.table].rows =
                    [j \in DOMAIN tbl.rows \cup {k} |-> IF j = k THEN new ELSE tbl.rows[j]]]
      [] sql.op = "DROP" -> [dbc EXCEPT ![sql.table] = Absent]
      [] sql.op = "ADDCOL" ->
            [dbc EXCEPT ![sql.table] =
                [tbl EXCEPT
                    !.cols = Append(@, sql.col),
                    !.schema = [c \in DOMAIN @ \cup {sql.col} |->
                                   IF c = sql.col THEN sql.types[1] ELSE @[c]],
                    !.rows = [k \in DOMAIN @ |->
                                 [c \in DOMAIN @[k] \cup {sql.col} |->
                                     IF c = sql.col THEN None ELSE @[k][c]]]]]
      [] sql.op = "CREATE" ->
            [dbc EXCEPT ![sql.table] =
                [exists |-> TRUE, type |-> "table", has_rowid |-> TRUE, cols |-> sql.cols,
                 schema |-> [c \in SeqToSet(sql.cols) |->
                                sql.types[CHOOSE i \in DOMAIN sql.cols : sql.cols[i] = c]],
                 pk |-> <<>>, alias |-> "", of |-> "", rows |-> <<>>]]
      [] sql.op = "COPY" ->
            \* the selected rows, in rowid order, get the next free rowids
            LET src == dbc[sql.other]
                ks == SortedKeys(DOMAIN src.rows)
                base == NextRowid(tbl) - 1
                new == {base + i : i \in DOMAIN ks}
            IN [dbc EXCEPT ![sql.table].rows =
                    [j \in DOMAIN tbl.rows \cup new |->
                        IF j \in DOMAIN tbl.rows THEN tbl.rows[j]
                        ELSE [c \in SeqToSet(tbl.cols) |->
                                 src.rows[ks[j - base]]
                                     [sql.cols[CHOOSE i \in DOMAIN tbl.cols : tbl.cols[i] = c]]]]]
      [] sql.op = "RENAME" ->
            [dbc EXCEPT ![sql.other] = tbl, ![sql.table] = Absent]

\* DatabaseManager.execute on the connection to `path`: the statement runs and
\* commits, or raises and leaves the file as it was
Execute(st, path, sql, params) ==
    IF SqlOk(st[path], sql)
    THEN [ok |-> TRUE, st |-> [st EXCEPT ![path] = SqlApply(st[path], sql, params)]]
    ELSE [ok |-> FALSE, st |-> st]

\* DatabaseManager.tables: the names of type 'table' in sqlite_master
TablesOf(st, path) == {t \in DOMAIN st[path] : IsTable(st[path], t)}

\* DatabaseManager.has_rowid: SELECT rowid FROM table succeeds
HasRowid(st, path, table) == IsTable(st[path], table) /\ st[path][table].has_rowid

\* DatabaseManager.table_schema: the rows of PRAGMA table_info (name, declared
\* type, pk flag), none for a missing table
TableSchema(st, path, table) ==
    LET tbl == st[path][table] IN
    IF table \in DOMAIN st[path] /\ tbl.exists
    THEN [i \in DOMAIN tbl.cols |->
             [name |-> tbl.cols[i], type |-> tbl.schema[tbl.cols[i]],
              pk |-> tbl.cols[i] \in SeqToSet(tbl.pk)]]
    ELSE <<>>

-----------------------------------------------------------------------------
(* Rows as read by the table model *)

\* the name SELECT rowid, * gives to the rowid column: the INTEGER PRIMARY KEY
\* column when the table has one
RowidHeader(tbl) == IF tbl.alias # "" THEN tbl.alias ELSE "rowid"

\* dict(r) of one row of SELECT rowid, * / SELECT *
RowDict(tbl, k, has_rowid) ==
    LET keys == SeqToSet(tbl.cols) \cup (IF has_rowid THEN {RowidHeader(tbl)} ELSE {})
    IN [c \in keys |-> IF c = "rowid" /\ has_rowid THEN IntV(k) ELSE tbl.rows[k][c]]

\* DatabaseManager.read_table: (ok, headers, rows); fails on a missing table
ReadTable(st, path, table, has_rowid) ==
    LET tbl == st[path][table] IN
    IF ~tbl.exists \/ (has_rowid /\ ~tbl.has_rowid)
    THEN [ok |-> FALSE, headers |-> <<>>, rows |-> <<>>]
    ELSE LET ks == SortedKeys(DOMAIN tbl.rows)
         IN [ok |-> TRUE,
             headers |-> (IF has_rowid THEN <<RowidHeader(tbl)>> ELSE <<>>) \o tbl.cols,
             rows |-> [i \in DOMAIN ks |-> RowDict(tbl, ks[i], has_rowid)]]

\* dict.get(c): None for a missing key
Get(row, c) == IF c \in DOMAIN row THEN row[c] ELSE None

-----------------------------------------------------------------------------
(* The QSortFilterProxyModel between the table model and the view *)

\* a fresh proxy on an unsorted view
NoProxy == [sort |-> "none", filter |-> ""]

\* str(value) of the integers that occur as rowids
DigitText == <<"1", "2", "3", "4", "5", "6", "7", "8", "9">>

\* SQLiteTableModel.data: the text shown for a value
Display(value) ==
    IF value.ty = "null" THEN "<NULL>"
    ELSE IF value.ty = "int" /\ value.v \in DOMAIN DigitText THEN DigitText[value.v]
    ELSE "text"

\* the proxy's filter on column 0 (the default filterKeyColumn): the wildcard
\* text occurs in the text shown; the texts here are one character long
Accepts(m, px, i) ==
    \/ px.filter = ""
    \/ m.headers # <<>> /\ Display(Get(m.rows[i], m.headers[1])) = px.filter

Reverse(s) == [i \in DOMAIN s |-> s[Len(s) + 1 - i]]

\* The rows of the model the view shows, as indexes into model.rows in view
\* order: the accepted rows, in model order when unsorted or sorted ascending
\* on column 0 (read_table returns the rows in rowid order), reversed when
\* sorted descending
ProxyRows(m, px) ==
    LET kept == SortedKeys({i \in DOMAIN m.rows : Accepts(m, px, i)})
    IN IF px.sort = "desc" THEN Reverse(kept) ELSE kept

NoModel ==
    [loaded |-> FALSE, db |-> "", table |-> "", has_rowid |-> FALSE, schema |-> <<>>,
     pk_columns |-> <<>>, headers |-> <<>>, rows |-> <<>>]

\* SQLiteTableModel.refresh: the model with headers and rows re-read, or an exception
Refresh(st, m) ==
    LET r == ReadTable(st, m.db, m.table, m.has_rowid) IN
    IF r.ok THEN [ok |-> TRUE, model |-> [m EXCEPT !.headers = r.headers, !.rows = r.rows]]
    ELSE [ok |-> FALSE, model |-> m]

-----------------------------------------------------------------------------
(* LogManager: a line of the log view *)

Log(msg, error) == [msg |-> msg, error |-> error]

\* LogManager.log_exception: the traceback, as one error line
LogException == Log("traceback", TRUE)

-----------------------------------------------------------------------------
(* UndoRedoManager *)

Command(undo_sql, redo_sql, undo_params, redo_params) ==
    [undo_sql |-> undo_sql, redo_sql |-> redo_sql,
     undo_params |-> undo_params, redo_params |-> redo_params]

Front(s) == SubSeq(s, 1, Len(s) - 1)
Top(s) == s[Len(s)]

\* push with a fault: the redo stack is kept
PushKeepsRedo(us, rs, cmd) ==
    [undo_stack |-> Append(us, cmd), redo_stack |-> rs]

\* UndoRedoManager.push
Push(us, rs, cmd) ==
    [undo_stack |-> Append(us, cmd), redo_stack |-> <<>>]

\* undo with a fault: the popped command is not kept for redo
UndoForgetsCommand(us, rs, st, path) ==
    IF us = <<>>
    THEN [ret |-> "empty", undo_stack |-> us, redo_stack |-> rs, st |-> st,
          stmts |-> <<>>, logs |-> <<Log("Nothing to undo", TRUE)>>]
    ELSE LET cmd == Top(us)
             r == Execute(st, path, cmd.undo_sql, cmd.undo_params)
         IN [ret |-> IF r.ok THEN "done" ELSE "raised", undo_stack |-> Front(us),
             redo_stack |-> rs, st |-> r.st,
             stmts |-> <<[sql |-> cmd.undo_sql, params |-> cmd.undo_params, ok |-> r.ok]>>,
             logs |-> IF r.ok THEN <<Log("Undo executed", FALSE)>> ELSE <<>>]

\* UndoRedoManager.undo on the connection to `path`; ret "raised" when
\* db.execute raised (the exception leaves undo after the pop)
Undo(us, rs, st, path) ==
    IF us = <<>>
    THEN [ret |-> "empty", undo_stack |-> us, redo_stack |-> rs, st |-> st,
          stmts |-> <<>>, logs |-> <<Log("Nothing to undo", TRUE)>>]
    ELSE LET cmd == Top(us)
             r == Execute(st, path, cmd.undo_sql, cmd.undo_params)
         IN IF r.ok
            THEN [ret |-> "done", undo_stack |-> Front(us), redo_stack |-> Append(rs, cmd),
                  st |-> r.st,
                  stmts |-> <<[sql |-> cmd.undo_sql, params |-> cmd.undo_params, ok |-> TRUE]>>,
                  logs |-> <<Log("Undo executed", FALSE)>>]
            ELSE [ret |-> "raised", undo_stack |-> Front(us), redo_stack |-> rs,
                  st |-> st,
                  stmts |-> <<[sql |-> cmd.undo_sql, params |-> cmd.undo_params, ok |-> FALSE]>>,
                  logs |-> <<>>]

\* redo with a fault: an empty redo_stack is not reported
RedoSilentWhenEmpty(us, rs, st, path) ==
    IF rs = <<>>
    THEN [ret |-> "empty", undo_stack |-> us, redo_stack |-> rs, st |-> st,
          stmts |-> <<>>, logs |-> <<>>]
    ELSE LET cmd == Top(rs)
             r == Execute(st, path, cmd.redo_sql, cmd.redo_params)
         IN IF r.ok
            THEN [ret |-> "done", undo_stack |-> Append(us, cmd), redo_stack |-> Front(rs),
                  st |-> r.st,
                  stmts |-> <<[sql |-> cmd.redo_sql, params |-> cmd.redo_params, ok |-> TRUE]>>,
                  logs |-> <<Log("Redo executed", FALSE)>>]
            ELSE [ret |-> "raised", undo_stack |-> us, redo_stack |-> Front(rs),
                  st |-> st,
                  stmts |-> <<[sql |-> cmd.redo_sql, params |-> cmd.redo_params, ok |-> FALSE]>>,
                  logs |-> <<>>]

\* UndoRedoManager.redo on the connection to `path`
Redo(us, rs, st, path) ==
    IF rs = <<>>
    THEN [ret |-> "empty", undo_stack |-> us, redo_stack |-> rs, st |-> st,
          stmts |-> <<>>, logs |-> <<Log("Nothing to redo", TRUE)>>]
    ELSE LET cmd == Top(rs)
             r == Execute(st, path, cmd.redo_sql, cmd.redo_params)
         IN IF r.ok
            THEN [ret |-> "done", undo_stack |-> Append(us, cmd), redo_stack |-> Front(rs),
                  st |-> r.st,
                  stmts |-> <<[sql |-> cmd.redo_sql, params |-> cmd.redo_params, ok |-> TRUE]>>,
                  logs |-> <<Log("Redo executed", FALSE)>>]
            ELSE [ret |-> "raised", undo_stack |-> us, redo_stack |-> Front(rs),
                  st |-> st,
                  stmts |-> <<[sql |-> cmd.redo_sql, params |-> cmd.redo_params, ok |-> FALSE]>>,
                  logs |-> <<>>]

-----------------------------------------------------------------------------
(* SQLiteTableModel *)

\* "INTEGER" in col_type or "INT" in col_type, on the declared types in use
HasIntAffinity(col_type) == col_type \in {"INTEGER", "INT"}
\* "REAL" in col_type or "FLOAT" in col_type
HasRealAffinity(col_type) == col_type \in {"REAL", "FLOAT"}

\* value.upper() == "<NULL>" or value.upper() == "NULL"
IsNullToken(value) == value \in {"NULL", "null", "<NULL>", "<null>"}

\* the strings int() accepts among the inputs, with their values
IntLiterals == ("5" :> 5)
\* the strings float() accepts among the inputs, with their values
RealLiterals == ("5" :> 5)

\* the coercion with a fault: a text that does not parse is kept as text
CoerceKeepsText(col_type, value) ==
    IF IsNullToken(value) THEN [ok |-> TRUE, value |-> None]
    ELSE IF HasIntAffinity(col_type) /\ value \in DOMAIN IntLiterals
         THEN [ok |-> TRUE, value |-> IntV(IntLiterals[value])]
         ELSE IF HasRealAffinity(col_type) /\ value \in DOMAIN RealLiterals
              THEN [ok |-> TRUE, value |-> RealV(RealLiterals[value])]
              ELSE [ok |-> TRUE, value |-> TextV(value)]

\* setData's coercion of the typed text: None, int(value) or the text itself;
\* ok = FALSE for the ValueError branch
Coerce(col_type, value) ==
    IF IsNullToken(value) THEN [ok |-> TRUE, value |-> None]
    ELSE IF HasIntAffinity(col_type)
         THEN IF value \in DOMAIN IntLiterals
              THEN [ok |-> TRUE, value |-> IntV(IntLiterals[value])]
              ELSE [ok |-> FALSE, value |-> None]
         ELSE IF HasRealAffinity(col_type)
              THEN IF value \in DOMAIN RealLiterals
                   THEN [ok |-> TRUE, value |-> RealV(RealLiterals[value])]
                   ELSE [ok |-> FALSE, value |-> None]
              ELSE [ok |-> TRUE, value |-> TextV(value)]

\* self.schema.get(col, "").upper()
ColType(m, col) == IF col \in DOMAIN m.schema THEN m.schema[col] ELSE ""

\* id_columns = ['rowid'] if self.has_rowid else self.pk_columns
IdColumns(m) == IF m.has_rowid THEN <<"rowid">> ELSE m.pk_columns

IsIdentityColumn(m, col) ==
    (m.has_rowid /\ col = "rowid") \/ col \in SeqToSet(m.pk_columns)

Outcome(ret, st, m, us, rs, stmts, logs) ==
    [ret |-> ret, st |-> st, model |-> m, undo_stack |-> us, redo_stack |-> rs,
     stmts |-> stmts, logs |-> logs]

\* the statement and the command setData builds for row i, column col
SetDataCommand(m, i, col, value) ==
    LET row == m.rows[i]
        id_columns == IdColumns(m)
        id_values == [j \in DOMAIN id_columns |-> Get(row, id_columns[j])]
        sql == UpdateSql(m.table, col, id_columns)
    IN Command(sql, sql, <<Get(row, col)>> \o id_values, <<value>> \o id_values)

\* setData with a fault: a value equal to the current one is written again
SetDataRepeatsValue(st, m, us, rs, i, col, text) ==
    LET c == Coerce(ColType(m, col), text)
        cmd == SetDataCommand(m, i, col, c.value)
        r == Execute(st, m.db, cmd.redo_sql, cmd.redo_params)
        p == Push(us, rs, cmd)
        ran == <<[sql |-> cmd.redo_sql, params |-> cmd.redo_params, ok |-> r.ok]>>
    IN IF IsIdentityColumn(m, col) THEN Outcome("False", st, m, us, rs, <<>>, <<>>)
       ELSE IF ~c.ok
       THEN Outcome("False", st, m, us, rs, <<>>, <<Log("Invalid value", TRUE)>>)
       ELSE IF r.ok
       THEN Outcome("True", r.st,
                    [m EXCEPT !.rows[i] = [c2 \in DOMAIN m.rows[i] \cup {col} |->
                                              IF c2 = col THEN c.value ELSE m.rows[i][c2]]],
                    p.undo_stack, p.redo_stack, ran, <<Log("updated", FALSE)>>)
       ELSE Outcome("False", st, m, us, rs, ran, <<LogException>>)

\* setData with a fault: identity columns are edited like the others
SetDataEditsIdentity(st, m, us, rs, i, col, text) ==
    LET c == Coerce(ColType(m, col), text)
        cmd == SetDataCommand(m, i, col, c.value)
        r == Execute(st, m.db, cmd.redo_sql, cmd.redo_params)
        p == Push(us, rs, cmd)
        ran == <<[sql |-> cmd.redo_sql, params |-> cmd.redo_params, ok |-> r.ok]>>
    IN IF ~c.ok
       THEN Outcome("False", st, m, us, rs, <<>>, <<Log("Invalid value", TRUE)>>)
       ELSE IF c.value = Get(m.rows[i], col) THEN Outcome("False", st, m, us, rs, <<>>, <<>>)
       ELSE IF r.ok
       THEN Outcome("True", r.st,
                    [m EXCEPT !.rows[i] = [c2 \in DOMAIN m.rows[i] \cup {col} |->
                                              IF c2 = col THEN c.value ELSE m.rows[i][c2]]],
                    p.undo_stack, p.redo_stack, ran, <<Log("updated", FALSE)>>)
       ELSE Outcome("False", st, m, us, rs, ran, <<LogException>>)

\* setData with a fault: the command is pushed before the statement runs
SetDataPushesFirst(st, m, us, rs, i, col, text) ==
    LET c == Coerce(ColType(m, col), text)
        cmd == SetDataCommand(m, i, col, c.value)
        p == Push(us, rs, cmd)
        r == Execute(st, m.db, cmd.redo_sql, cmd.redo_params)
        ran == <<[sql |-> cmd.redo_sql, params |-> cmd.redo_params, ok |-> r.ok]>>
    IN IF IsIdentityColumn(m, col) THEN Outcome("False", st, m, us, rs, <<>>, <<>>)
       ELSE IF ~c.ok
       THEN Outcome("False", st, m, us, rs, <<>>, <<Log("Invalid value", TRUE)>>)
       ELSE IF c.value = Get(m.rows[i], col) THEN Outcome("False", st, m, us, rs, <<>>, <<>>)
       ELSE IF r.ok
       THEN Outcome("True", r.st,
                    [m EXCEPT !.rows[i] = [c2 \in DOMAIN m.rows[i] \cup {col} |->
                                              IF c2 = col THEN c.value ELSE m.rows[i][c2]]],
                    p.undo_stack, p.redo_stack, ran, <<Log("updated", FALSE)>>)
       ELSE Outcome("False", st, m, p.undo_stack, p.redo_stack, ran, <<LogException>>)

\* SQLiteTableModel.setData(index(i, col), text, EditRole)
SetData(st, m, us, rs, i, col, text) ==
    LET c == Coerce(ColType(m, col), text)
        cmd == SetDataCommand(m, i, col, c.value)
        r == Execute(st, m.db, cmd.redo_sql, cmd.redo_params)
        p == Push(us, rs, cmd)
        ran == <<[sql |-> cmd.redo_sql, params |-> cmd.redo_params, ok |-> r.ok]>>
    IN IF IsIdentityColumn(m, col) THEN Outcome("False", st, m, us, rs, <<>>, <<>>)
       ELSE IF ~c.ok
       THEN Outcome("False", st, m, us, rs, <<>>, <<Log("Invalid value", TRUE)>>)
       ELSE IF c.value = Get(m.rows[i], col) THEN Outcome("False", st, m, us, rs, <<>>, <<>>)
       ELSE IF r.ok
       THEN Outcome("True", r.st,
                    [m EXCEPT !.rows[i] = [c2 \in DOMAIN m.rows[i] \cup {col} |->
                                              IF c2 = col THEN c.value ELSE m.rows[i][c2]]],
                    p.undo_stack, p.redo_stack, ran, <<Log("updated", FALSE)>>)
       ELSE Outcome("False", st, m, us, rs, ran, <<LogException>>)

-----------------------------------------------------------------------------
(* MainWindow handlers, as functions of the state they read *)

\* add_row with a fault: the command is pushed although the INSERT failed
AddRowPushesAnyway(st, path, m, us, rs) ==
    LET sql == InsertDefaultSql(m.table)
        r == Execute(st, path, sql, <<>>)
        rowid == IF r.ok THEN NextRowid(st[path][m.table]) ELSE 0
        cmd == Command(DeleteSql(m.table, <<"rowid">>), sql, <<IntV(rowid)>>, <<>>)
        p == Push(us, rs, cmd)
        f == Refresh(r.st, m)
        ran == <<[sql |-> sql, params |-> <<>>, ok |-> r.ok]>>
    IN IF ~m.loaded THEN Outcome("None", st, m, us, rs, <<>>, <<>>)
       ELSE IF f.ok /\ r.ok
            THEN Outcome("None", r.st, f.model, p.undo_stack, p.redo_stack, ran,
                         <<Log("Row added", FALSE)>>)
            ELSE Outcome("None", r.st, m, p.undo_stack, p.redo_stack, ran, <<LogException>>)

\* MainWindow.add_row: INSERT on the window's connection, the inverse keyed by
\* last_insert_rowid(), then a refresh of the model
AddRow(st, path, m, us, rs) ==
    LET sql == InsertDefaultSql(m.table)
        r == Execute(st, path, sql, <<>>)
        rowid == NextRowid(st[path][m.table])
        cmd == Command(DeleteSql(m.table, <<"rowid">>), sql, <<IntV(rowid)>>, <<>>)
        p == IF m.has_rowid THEN Push(us, rs, cmd)
             ELSE [undo_stack |-> us, redo_stack |-> rs]
        f == Refresh(r.st, m)
        ran == <<[sql |-> sql, params |-> <<>>, ok |-> r.ok]>>
    IN IF ~m.loaded THEN Outcome("None", st, m, us, rs, <<>>, <<>>)
       ELSE IF ~r.ok THEN Outcome("None", st, m, us, rs, ran, <<LogException>>)
       ELSE IF f.ok
            THEN Outcome("None", r.st, f.model, p.undo_stack, p.redo_stack, ran,
                         <<Log("Row added", FALSE)>>)
            ELSE Outcome("None", r.st, m, p.undo_stack, p.redo_stack, ran, <<LogException>>)

\* the loop of delete_rows over the selected indexes, stopping at the first
\* statement that raises
RECURSIVE DeleteEach(_, _, _, _, _)
DeleteEach(st, path, m, idxs, ran) ==
    IF idxs = <<>> THEN [ok |-> TRUE, st |-> st, stmts |-> ran]
    ELSE LET row == m.rows[Head(idxs)]
             id_columns == IdColumns(m)
             params == [j \in DOMAIN id_columns |-> Get(row, id_columns[j])]
             sql == DeleteSql(m.table, id_columns)
             r == Execute(st, path, sql, params)
         IN IF r.ok
            THEN DeleteEach(r.st, path, m, Tail(idxs),
                            Append(ran, [sql |-> sql, params |-> params, ok |-> TRUE]))
            ELSE [ok |-> FALSE, st |-> st,
                  stmts |-> Append(ran, [sql |-> sql, params |-> params, ok |-> FALSE])]

\* delete_rows with a fault: a successful deletion is logged as a command
DeleteRowsLogsCommand(st, path, m, us, rs, selected) ==
    LET d == DeleteEach(st, path, m, SortedKeys(selected), <<>>)
        f == Refresh(d.st, m)
        cmd == Command(InsertDefaultSql(m.table), DeleteSql(m.table, IdColumns(m)),
                       <<>>, <<>>)
        p == Push(us, rs, cmd)
    IN IF ~m.loaded
       THEN Outcome("None", st, m, us, rs, <<>>, <<Log("No table loaded", TRUE)>>)
       ELSE IF ~d.ok THEN Outcome("raised", d.st, m, us, rs, d.stmts, <<LogException>>)
       ELSE IF ~f.ok THEN Outcome("raised", d.st, m, us, rs, d.stmts, <<LogException>>)
       ELSE Outcome("None", d.st, f.model, p.undo_stack, p.redo_stack, d.stmts,
                    <<Log("Rows deleted", FALSE)>>)

\* delete_rows with a fault: a statement or refresh that raises is swallowed
DeleteRowsSwallowsFailure(st, path, m, us, rs, selected) ==
    LET d == DeleteEach(st, path, m, SortedKeys(selected), <<>>)
        f == Refresh(d.st, m)
    IN IF ~m.loaded
       THEN Outcome("None", st, m, us, rs, <<>>, <<Log("No table loaded", TRUE)>>)
       ELSE Outcome("None", d.st, IF d.ok /\ f.ok THEN f.model ELSE m, us, rs, d.stmts,
                    <<Log("Rows deleted", FALSE)>>)

\* MainWindow.delete_rows for the selected row indexes
DeleteRows(st, path, m, us, rs, selected) ==
    LET d == DeleteEach(st, path, m, SortedKeys(selected), <<>>)
        f == Refresh(d.st, m)
    IN IF ~m.loaded
       THEN Outcome("None", st, m, us, rs, <<>>, <<Log("No table loaded", TRUE)>>)
       ELSE IF ~d.ok THEN Outcome("raised", d.st, m, us, rs, d.stmts, <<LogException>>)
       ELSE IF ~f.ok THEN Outcome("raised", d.st, m, us, rs, d.stmts, <<LogException>>)
       ELSE Outcome("None", d.st, f.model, us, rs, d.stmts, <<Log("Rows deleted", FALSE)>>)

\* the orders a click on a header toggles between
SortOrders == {"asc", "desc"}

\* the texts typed into the search bar
FilterTexts == {"", "2"}

\* the statements typed into the SQL console ("" is an empty input)
ConsoleInputs ==
    {InsertDefaultSql(t) : t \in Tables} \cup {DropTableSql(t) : t \in Tables}

EmptySql == Sql("", "", "", <<>>, <<>>, <<>>, "")

\* MainWindow.exec_sql
ExecSql(st, path, m, us, rs, sql) ==
    LET r == Execute(st, path, sql, <<>>)
        f == Refresh(r.st, m)
        ran == <<[sql |-> sql, params |-> <<>>, ok |-> r.ok]>>
    IN IF sql = EmptySql
       THEN Outcome("None", st, m, us, rs, <<>>, <<Log("SQL input is empty", TRUE)>>)
       ELSE IF path = "" THEN Outcome("raised", st, m, us, rs, <<>>, <<LogException>>)
       ELSE IF ~r.ok THEN Outcome("raised", st, m, us, rs, ran, <<LogException>>)
       ELSE IF ~m.loaded
       THEN Outcome("None", r.st, m, us, rs, ran, <<Log("SQL executed", FALSE)>>)
       ELSE IF f.ok
       THEN Outcome("None", r.st, f.model, us, rs, ran, <<Log("SQL executed", FALSE)>>)
       ELSE Outcome("raised", r.st, m, us, rs, ran,
                    <<Log("SQL executed", FALSE), LogException>>)

\* MainWindow.add_column: the dialogs return name and coltype ("" when cancelled
\* or blank); ALTER TABLE on the window's connection, then a refresh of the rows
AddColumn(st, path, m, us, rs, name, coltype) ==
    LET sql == AddColumnSql(m.table, name, coltype)
        r == Execute(st, path, sql, <<>>)
        f == Refresh(r.st, m)
        ran == <<[sql |-> sql, params |-> <<>>, ok |-> r.ok]>>
    IN IF name = "" \/ coltype = "" THEN Outcome("None", st, m, us, rs, <<>>, <<>>)
       ELSE IF ~m.loaded THEN Outcome("raised", st, m, us, rs, <<>>, <<LogException>>)
       ELSE IF ~r.ok THEN Outcome("raised", st, m, us, rs, ran, <<LogException>>)
       ELSE IF f.ok
       THEN Outcome("None", r.st, f.model, us, rs, ran, <<Log("Column added", FALSE)>>)
       ELSE Outcome("raised", r.st, m, us, rs, ran, <<LogException>>)

\* temp_table = f"{self.model.table}_temp"
TempName(table) ==
    CASE table = "t" -> "t_temp"
      [] table = "p" -> "p_temp"
      [] OTHER -> "_temp"

\* the statements of delete_column run one after the other, each committed,
\* up to the first that raises
RECURSIVE RunAll(_, _, _, _)
RunAll(st, path, sqls, ran) ==
    IF sqls = <<>> THEN [ok |-> TRUE, st |-> st, stmts |-> ran]
    ELSE LET r == Execute(st, path, Head(sqls), <<>>)
             done == Append(ran, [sql |-> Head(sqls), params |-> <<>>, ok |-> r.ok])
         IN IF r.ok THEN RunAll(r.st, path, Tail(sqls), done)
            ELSE [ok |-> FALSE, st |-> st, stmts |-> done]

\* MainWindow.delete_column: the table is rebuilt without col under a temporary
\* name; every exception is logged by the handler itself
DeleteColumn(st, path, m, us, rs, col) ==
    LET info == TableSchema(st, path, m.table)
        kept == SelectSeq(info, LAMBDA c : c.name # col)
        columns == [i \in DOMAIN kept |-> kept[i].name]
        temp_table == TempName(m.table)
        d == RunAll(st, path,
                    <<CreateTableSql(temp_table, columns,
                                     [i \in DOMAIN columns |-> m.schema[columns[i]]]),
                      CopyRowsSql(temp_table, columns, m.table),
                      DropTableSql(m.table),
                      RenameTableSql(temp_table, m.table)>>, <<>>)
        f == Refresh(d.st, m)
    IN IF col = "" THEN Outcome("None", st, m, us, rs, <<>>, <<>>)
       ELSE IF ~m.loaded THEN Outcome("None", st, m, us, rs, <<>>, <<LogException>>)
       ELSE IF columns = <<>> THEN Outcome("None", st, m, us, rs, <<>>, <<LogException>>)
       ELSE IF ~(SeqToSet(columns) \subseteq DOMAIN m.schema)
       THEN Outcome("None", st, m, us, rs, <<>>, <<LogException>>)
       ELSE IF ~d.ok THEN Outcome("None", d.st, m, us, rs, d.stmts, <<LogException>>)
       ELSE IF f.ok
       THEN Outcome("None", d.st, f.model, us, rs, d.stmts, <<Log("Column deleted", FALSE)>>)
       ELSE Outcome("None", d.st, m, us, rs, d.stmts, <<LogException>>)

\* what the user can type into the dialogs of add_column and delete_column
NewColumns == {"n"}
ColumnTypes == {"INTEGER"}
DroppedColumns == {"age", "n"}

\* MainWindow.safe_undo: undo on the window's connection, then a refresh
SafeUndo(st, path, m, us, rs) ==
    LET u == Undo(us, rs, st, path)
        f == Refresh(u.st, m)
    IN IF path = ""
       THEN Outcome("nodb", st, m, us, rs, <<>>, <<Log("No database loaded", TRUE)>>)
       ELSE IF u.ret = "raised"
       THEN Outcome("raised", u.st, m, u.undo_stack, u.redo_stack, u.stmts, <<LogException>>)
       ELSE IF ~m.loaded
       THEN Outcome(u.ret, u.st, m, u.undo_stack, u.redo_stack, u.stmts, u.logs)
       ELSE IF f.ok
       THEN Outcome(u.ret, u.st, f.model, u.undo_stack, u.redo_stack, u.stmts, u.logs)
       ELSE Outcome(u.ret, u.st, m, u.undo_stack, u.redo_stack, u.stmts,
                    Append(u.logs, LogException))

\* the Redo menu action: safe_run(lambda: self.undo_redo.redo(self.db)), no refresh
RedoAction(st, path, m, us, rs) ==
    LET u == Redo(us, rs, st, path)
    IN IF u.ret = "raised"
       THEN Outcome("raised", u.st, m, u.undo_stack, u.redo_stack, u.stmts, <<LogException>>)
       ELSE Outcome(u.ret, u.st, m, u.undo_stack, u.redo_stack, u.stmts, u.logs)

\* SQLiteTableModel.__init__ for the clicked item; ok = FALSE when it raises
NewModel(st, path, item) ==
    LET info == TableSchema(st, path, item)
        has_rowid == HasRowid(st, path, item)
        schema == [c \in {info[i].name : i \in DOMAIN info} |->
                      info[CHOOSE i \in DOMAIN info : info[i].name = c].type]
        pks == SelectSeq(info, LAMBDA col : col.pk)
        pk_columns == [i \in DOMAIN pks |-> pks[i].name]
        m == [loaded |-> TRUE, db |-> path, table |-> item, has_rowid |-> has_rowid,
              schema |-> schema, pk_columns |-> pk_columns, headers |-> <<>>, rows |-> <<>>]
    IN IF ~has_rowid /\ pk_columns = <<>> THEN [ok |-> FALSE, model |-> NoModel]
       ELSE Refresh(st, m)

-----------------------------------------------------------------------------
(* History kept for the properties: what the last handler did *)

NoCell == [db |-> "", table |-> "", key |-> 0, col |-> ""]
Missing == [ty |-> "missing", v |-> 0]

\* the value stored in a cell, Missing when the table or the row is not there
CellValue(st, cell) ==
    IF /\ cell.db \in Dbs
       /\ cell.table \in DOMAIN st[cell.db]
       /\ st[cell.db][cell.table].exists
       /\ cell.key \in DOMAIN st[cell.db][cell.table].rows
       /\ cell.col \in DOMAIN st[cell.db][cell.table].rows[cell.key]
    THEN st[cell.db][cell.table].rows[cell.key][cell.col]
    ELSE Missing

\* the rowid of row i of the snapshot (read under the name its table gives to
\* the rowid column), 0 when the row has none
CellKey(st, m, i) ==
    LET tbl == st[m.db][m.table]
        v == Get(m.rows[i], IF tbl.exists THEN RowidHeader(tbl) ELSE "rowid")
    IN IF v.ty = "int" THEN v.v ELSE 0

Off == [shape |-> "off", n |-> 0, m |-> 0, k |-> 0]

\* N pushes, then M <= N undos, then K <= M redos, each running its statement
\* successfully: the counts of the run so far, Off once the run has another shape
TallyNext(op, o) ==
    LET pushed == Len(o.undo_stack) = Len(undo_stack) + 1 IN
    IF tally.shape = "off" THEN Off
    ELSE IF op \in {"setData", "add_row"}
    THEN IF ~pushed THEN tally
         ELSE IF tally.shape = "push" THEN [tally EXCEPT !.n = @ + 1] ELSE Off
    ELSE IF op = "undo"
    THEN IF o.ret = "done" /\ tally.shape \in {"push", "undo"} /\ tally.m < tally.n
         THEN [tally EXCEPT !.shape = "undo", !.m = @ + 1] ELSE Off
    ELSE IF op = "redo"
    THEN IF o.ret = "done" /\ tally.shape \in {"undo", "redo"} /\ tally.k < tally.m
         THEN [tally EXCEPT !.shape = "redo", !.k = @ + 1] ELSE Off
    ELSE IF tally.n = 0 THEN tally ELSE Off

Forwards(us, rs) ==
    {<<us[i].redo_sql, us[i].redo_params>> : i \in DOMAIN us}
        \cup {<<rs[i].redo_sql, rs[i].redo_params>> : i \in DOMAIN rs}

Raised(o) == \E i \in DOMAIN o.logs : o.logs[i] = LogException

\* The state before a done undo or redo; two of them when the last two handlers
\* were a done undo and a done redo, in either order
PreNext(op, o) ==
    LET now == [op |-> op, storage |-> storage, undo_stack |-> undo_stack,
                redo_stack |-> redo_stack]
    IN IF op \in {"undo", "redo"} /\ o.ret = "done"
       THEN IF pre # <<>> /\ pre[1].op # op THEN <<now, pre[1]>> ELSE <<now>>
       ELSE <<>>

\* The rowid produced by the last forward execution of each command of undo_stack
\* (0 for a command that inserts nothing)
BornNext(op, o) ==
    LET grew == Len(o.undo_stack) = Len(undo_stack) + 1
        top == Top(o.undo_stack)
    IN IF grew
       THEN Append(born, IF top.redo_sql.op = "INSERT" /\ db # ""
                         THEN NextRowid(storage[db][top.redo_sql.table]) ELSE 0)
       ELSE IF Len(o.undo_stack) < Len(undo_stack) THEN Front(born)
       ELSE born

\* the input of a handler: the row index of the edited cell (0 when there is
\* none) and the texts given
In(row, args) == [row |-> row, args |-> args, rows |-> {}]

\* the input of delete_rows: the positions of the rows selected in the view
Picked(selected) == [row |-> 0, args |-> <<>>, rows |-> selected]

\* no run of edits is followed
NoRun ==
    [phase |-> "off", n |-> 0, m |-> 0, k |-> 0, cells |-> {}, start |-> <<>>,
     end |-> <<>>, pushed |-> <<>>, in_order |-> TRUE]

\* runs of edits are followed, none is under way
Idle == [NoRun EXCEPT !.phase = "idle"]

\* A run: n successful setData in a row, then up to n done undos, then (after
\* the n-th undo) up to n done redos, nothing else in between. cells are the
\* edited cells, start and end the storage before the first and after the last
\* edit, pushed the commands in push order, in_order whether each undo ran the
\* inverse of the latest command not yet undone and each redo the forward of
\* the earliest command not yet redone.
RunNext(op, o, cell) ==
    LET r == seen.run
        ran(sql, params) == o.stmts = <<[sql |-> sql, params |-> params, ok |-> TRUE]>>
    IN IF r.phase = "off" THEN NoRun
       ELSE IF op = "setData" /\ o.ret = "True"
       THEN IF r.phase = "edit"
            THEN [r EXCEPT !.n = @ + 1, !.cells = @ \cup {cell}, !.end = o.st,
                           !.pushed = Append(@, Top(o.undo_stack))]
            ELSE [phase |-> "edit", n |-> 1, m |-> 0, k |-> 0, cells |-> {cell},
                  start |-> storage, end |-> o.st, pushed |-> <<Top(o.undo_stack)>>,
                  in_order |-> TRUE]
       ELSE IF op = "undo" /\ o.ret = "done" /\ r.phase \in {"edit", "undo"} /\ r.m < r.n
       THEN LET cmd == r.pushed[r.n - r.m]
            IN [r EXCEPT !.phase = "undo", !.m = @ + 1,
                         !.in_order = @ /\ ran(cmd.undo_sql, cmd.undo_params)]
       ELSE IF /\ op = "redo" /\ o.ret = "done" /\ r.k < r.n
               /\ (r.phase = "undo" /\ r.m = r.n) \/ r.phase = "redo"
       THEN LET cmd == r.pushed[r.k + 1]
            IN [r EXCEPT !.phase = "redo", !.k = @ + 1,
                         !.in_order = @ /\ ran(cmd.redo_sql, cmd.redo_params)]
       ELSE Idle

\* For each command of undo_stack and of redo_stack, the database on whose
\* connection its forward statement was first executed: the model's connection
\* for setData, the window's for add_row
HomesNext(op, o) ==
    LET uh == seen.undo_home
        rh == seen.redo_home
        pushed == Len(o.undo_stack) = Len(undo_stack) + 1
    IN IF op = "setData" /\ pushed
       THEN [undo_home |-> Append(uh, model.db), redo_home |-> <<>>]
       ELSE IF op = "add_row" /\ pushed
       THEN [undo_home |-> Append(uh, db), redo_home |-> <<>>]
       ELSE IF op = "undo" /\ Len(o.undo_stack) < Len(undo_stack)
       THEN [undo_home |-> Front(uh),
             redo_home |-> IF Len(o.redo_stack) > Len(redo_stack)
                           THEN Append(rh, Top(uh)) ELSE rh]
       ELSE IF op = "redo" /\ Len(o.redo_stack) < Len(redo_stack)
       THEN [undo_home |-> IF Len(o.undo_stack) > Len(undo_stack)
                           THEN Append(uh, Top(rh)) ELSE uh,
             redo_home |-> Front(rh)]
       ELSE [undo_home |-> uh, redo_home |-> rh]

\* not recorded
Unseen == [input |-> In(0, <<"unseen">>), stmts |-> <<>>, logs |-> <<>>, cell |-> NoCell,
           before |-> Missing, run |-> NoRun, undo_home |-> <<>>, redo_home |-> <<>>]

\* nothing recorded yet
NothingSeen == [input |-> In(0, <<>>), stmts |-> <<>>, logs |-> <<>>, cell |-> NoCell,
                before |-> Missing, run |-> NoRun, undo_home |-> <<>>, redo_home |-> <<>>]

\* nothing recorded yet, runs of edits followed
NothingReplayed == [NothingSeen EXCEPT !.run = Idle]

\* What the handler was given and what it ran and logged; cell and before are
\* those of the last successful setData while only loads of tables followed it
SeenNext(op, o, cell, before, input) ==
    IF seen = Unseen THEN Unseen
    ELSE LET edited == op = "setData" /\ o.ret = "True"
             kept == op = "load_table" /\ o.ret # "raised"
         IN [input |-> input, stmts |-> o.stmts, logs |-> o.logs,
             cell |-> IF edited THEN cell ELSE IF kept THEN seen.cell ELSE NoCell,
             before |-> IF edited THEN before ELSE IF kept THEN seen.before ELSE Missing,
             run |-> RunNext(op, o, cell),
             undo_home |-> HomesNext(op, o).undo_home,
             redo_home |-> HomesNext(op, o).redo_home]

\* The proxy after a handler: a click on the header of column 0 sets the sort
\* order, the search bar the filter text; load_table makes a new proxy without
\* filter, on which the view may or may not apply the order its header shows
ProxyNext(op, o, input) ==
    IF op = "sort" THEN {[proxy EXCEPT !.sort = input.args[1]]}
    ELSE IF op = "filter_table" /\ model.loaded
    THEN {[proxy EXCEPT !.filter = input.args[1]]}
    ELSE IF op = "load_table" /\ o.ret # "raised"
    THEN {[sort |-> order, filter |-> ""] : order \in {"none", proxy.sort}}
    ELSE {proxy}

\* The effect of one handler: the outcome o of handler op, given input, becomes
\* the state
Effect(op, o, cell, before, input) ==
    /\ steps < limit
    /\ proxy' \in ProxyNext(op, o, input)
    /\ steps' = steps + 1
    /\ limit' = limit
    /\ seen' = SeenNext(op, o, cell, before, input)
    /\ born' = BornNext(op, o)
    /\ storage' = o.st
    /\ model' = o.model
    /\ undo_stack' = o.undo_stack
    /\ redo_stack' = o.redo_stack
    /\ last' = [op |-> op, ret |-> o.ret, exc |-> Raised(o), cell |-> cell, before |-> before,
                prev_op |-> last.op, prev_ret |-> last.ret]
    /\ pre' = PreNext(op, o)
    /\ executed' =
          (executed \cup {<<o.stmts[i].sql, o.stmts[i].params>> :
                             i \in {j \in DOMAIN o.stmts : o.stmts[j].ok}})
              \cap Forwards(o.undo_stack, o.redo_stack)
    /\ tally' = TallyNext(op, o)

\* the cell of a successful setData, kept for the handler that follows it
EditDone == last.op = "setData" /\ last.ret = "True"
CarriedCell == IF EditDone THEN last.cell ELSE NoCell
CarriedBefore == IF EditDone THEN last.before ELSE Missing

Unchanged == Outcome("None", storage, model, undo_stack, redo_stack, <<>>, <<>>)

-----------------------------------------------------------------------------
(* The state machine *)

\* the window after construction, on the database files st
Start(st, calls, record) ==
    /\ storage = st
    /\ db = ""
    /\ table_list = {}
    /\ model = NoModel
    /\ undo_stack = <<>>
    /\ redo_stack = <<>>
    /\ last = [op |-> "init", ret |-> "None", exc |-> FALSE, cell |-> NoCell, before |-> Missing,
               prev_op |-> "", prev_ret |-> ""]
    /\ pre = <<>>
    /\ executed = {}
    /\ born = <<>>
    /\ tally = [shape |-> "push", n |-> 0, m |-> 0, k |-> 0]
    /\ steps = 0
    /\ limit = calls
    /\ seen = record
    /\ proxy = NoProxy

Init == Start(InitStorage, MaxSteps, Unseen)

\* MainWindow.open_db: the file dialog returns path ("" when cancelled)
open_db ==
    \E path \in Dbs \cup {""} :
        /\ db' = IF path = "" THEN db ELSE path
        /\ table_list' = IF path = "" THEN table_list ELSE TablesOf(storage, path)
        /\ \E o \in {IF path = "" THEN [Unchanged EXCEPT !.ret = "cancelled"]
                     ELSE [Unchanged EXCEPT !.ret = "opened",
                                            !.logs = <<Log("Database opened", FALSE)>>]} :
              Effect("open_db", o, NoCell, Missing, In(0, <<path>>))

\* MainWindow.load_table for a clicked item of the table list
load_table ==
    \E item \in table_list :
        \E n \in {NewModel(storage, db, item)} :
            /\ UNCHANGED <<db, table_list>>
            /\ \E o \in {IF n.ok THEN [Unchanged EXCEPT !.model = n.model]
                         ELSE [Unchanged EXCEPT !.ret = "raised", !.logs = <<LogException>>]} :
                  Effect("load_table", o, NoCell, Missing, In(0, <<item>>))

\* SQLiteTableModel.setData on a cell of the loaded model
setData ==
    /\ model.loaded
    /\ \E i \in DOMAIN model.rows, col \in SeqToSet(model.headers), text \in CellInputs :
        \E o \in {SetData(storage, model, undo_stack, redo_stack, i, col, text)} :
            LET cell == [db |-> model.db, table |-> model.table,
                         key |-> CellKey(storage, model, i), col |-> col]
            IN /\ UNCHANGED <<db, table_list>>
               /\ IF o.ret = "True"
                  THEN Effect("setData", o, cell, CellValue(storage, cell), In(i, <<col, text>>))
                  ELSE Effect("setData", o, NoCell, Missing, In(i, <<col, text>>))

\* MainWindow.add_row
add_row ==
    \E o \in {AddRow(storage, db, model, undo_stack, redo_stack)} :
        /\ UNCHANGED <<db, table_list>>
        /\ Effect("add_row", o, NoCell, Missing, In(0, <<>>))

\* MainWindow.delete_rows with a non-empty selection
delete_rows ==
    \E selected \in (SUBSET (DOMAIN ProxyRows(model, proxy))) \ {{}} :
        \E o \in {DeleteRows(storage, db, model, undo_stack, redo_stack, selected)} :
            /\ UNCHANGED <<db, table_list>>
            /\ Effect("delete_rows", o, NoCell, Missing, Picked(selected))

\* a click on the header of column 0 of table_view (setSortingEnabled(True))
sort_table ==
    /\ model.loaded
    /\ \E order \in SortOrders :
          /\ UNCHANGED <<db, table_list>>
          /\ Effect("sort", Unchanged, NoCell, Missing, In(0, <<order>>))

\* MainWindow.filter_table with the text of the search bar
filter_table ==
    \E text \in FilterTexts :
        /\ UNCHANGED <<db, table_list>>
        /\ Effect("filter_table", Unchanged, NoCell, Missing, In(0, <<text>>))

\* MainWindow.exec_sql with the text of the SQL console
exec_sql ==
    \E sql \in ConsoleInputs \cup {EmptySql} :
        \E o \in {ExecSql(storage, db, model, undo_stack, redo_stack, sql)} :
            /\ UNCHANGED <<db, table_list>>
            /\ Effect("exec_sql", o, NoCell, Missing, In(0, <<sql.op>>))

\* Edit > Undo: safe_run(self.safe_undo)
safe_undo ==
    \E o \in {SafeUndo(storage, db, model, undo_stack, redo_stack)} :
        /\ UNCHANGED <<db, table_list>>
        /\ Effect("undo", o, CarriedCell, CarriedBefore, In(0, <<>>))

\* Edit > Redo: safe_run(lambda: self.undo_redo.redo(self.db))
redo ==
    \E o \in {RedoAction(storage, db, model, undo_stack, redo_stack)} :
        /\ UNCHANGED <<db, table_list>>
        /\ Effect("redo", o, NoCell, Missing, In(0, <<>>))

\* MainWindow.add_column with the texts of its two dialogs
add_column ==
    \E name \in NewColumns \cup {""}, coltype \in ColumnTypes \cup {""} :
        \E o \in {AddColumn(storage, db, model, undo_stack, redo_stack, name, coltype)} :
            /\ UNCHANGED <<db, table_list>>
            /\ Effect("add_column", o, NoCell, Missing, In(0, <<name, coltype>>))

\* MainWindow.delete_column with the text of its dialog
delete_column ==
    \E col \in DroppedColumns \cup {""} :
        \E o \in {DeleteColumn(storage, db, model, undo_stack, redo_stack, col)} :
            /\ UNCHANGED <<db, table_list>>
            /\ Effect("delete_column", o, NoCell, Missing, In(0, <<col>>))

Next ==
    \/ open_db
    \/ load_table
    \/ setData
    \/ add_row
    \/ delete_rows
    \/ exec_sql
    \/ safe_undo
    \/ redo

Spec == Init /\ [][Next]_vars

\* The editor on a database with two tables and a view, schema handlers included
EditorInit == Start(EditorStorage, MaxEditorSteps, NothingSeen)

EditorNext ==
    \/ Next
    \/ add_column
    \/ delete_column

EditorSpec == EditorInit /\ [][EditorNext]_vars

\* Edits, table loads, undo and redo on the same database, followed for longer
SwitchInit == Start(EditorStorage, MaxSwitchSteps, NothingReplayed)

SwitchNext ==
    \/ open_db
    \/ load_table
    \/ setData
    \/ safe_undo
    \/ redo

SwitchSpec == SwitchInit /\ [][SwitchNext]_vars

\* Rows added and deleted behind a sorted or filtered view
ProxyInit == Start(EditorStorage, MaxProxySteps, NothingSeen)

ProxySteps ==
    \/ open_db
    \/ load_table
    \/ add_row
    \/ delete_rows
    \/ sort_table
    \/ filter_table

ProxySpec == ProxyInit /\ [][ProxySteps]_vars

-----------------------------------------------------------------------------
(* Properties *)

StackTotal == Len(undo_stack) + Len(redo_stack)

RowidsOf(st, path, table) ==
    IF path \in Dbs /\ st[path][table].exists THEN DOMAIN st[path][table].rows ELSE {}

\* C1: undo right after a successful setData (no database switch in between)
\* leaves in the edited cell the value storage held just before the setData.
RoundTripLaw ==
    (/\ last.op = "undo"
     /\ last.prev_op = "setData"
     /\ last.prev_ret = "True"
     /\ db = last.cell.db)
        => CellValue(storage, last.cell) = last.before

\* C2: no call of undo or redo changes len(undo_stack) + len(redo_stack),
\* whatever the outcome of the statement it runs.
HistoryConservation ==
    [][last'.op \in {"undo", "redo"} =>
          Len(undo_stack') + Len(redo_stack') = StackTotal]_vars

\* C3: after an undo or a redo that ran its statement, the rows of the model
\* are the rows of its table in storage.
SnapshotMatchesStorage ==
    (/\ last.op \in {"undo", "redo"}
     /\ last.ret = "done"
     /\ model.loaded
     /\ storage[model.db][model.table].exists)
        => model.rows = ReadTable(storage, model.db, model.table, model.has_rowid).rows

\* C4: right after open_db has opened a database both stacks are empty and no
\* model of a table of another database is loaded.
HistoryClearedOnOpen ==
    (last.op = "open_db" /\ last.ret = "opened")
        => /\ undo_stack = <<>>
           /\ redo_stack = <<>>
           /\ model.loaded => model.db = db

\* C5: a redo right after a done undo, or an undo right after a done redo,
\* leaves storage and both stacks as they were before the pair.
UndoRedoRoundTrip ==
    Len(pre) = 2
        => /\ storage = pre[2].storage
           /\ undo_stack = pre[2].undo_stack
           /\ redo_stack = pre[2].redo_stack

\* C6: when undo runs the inverse of an add_row command, the only row it can
\* remove is the one that command's most recent INSERT produced.
AddRowInverseDeletesOwnRow ==
    [][(/\ last'.op = "undo"
        /\ db # ""
        /\ undo_stack # <<>>
        /\ Top(undo_stack).undo_sql.op = "DELETE")
          => (RowidsOf(storage, db, Top(undo_stack).undo_sql.table)
                 \ RowidsOf(storage', db, Top(undo_stack).undo_sql.table))
                \subseteq {Top(born)}]_vars

\* a redo in the current state reports "Nothing to redo" and runs no statement
RedoReportsEmpty ==
    LET r == RedoAction(storage, db, model, undo_stack, redo_stack)
    IN /\ r.ret = "empty"
       /\ r.stmts = <<>>
       /\ r.logs = <<Log("Nothing to redo", TRUE)>>
       /\ r.st = storage
       /\ r.undo_stack = undo_stack

\* C7: a push appends the command to undo_stack and leaves redo_stack empty; a
\* redo after a new successful setData reports "Nothing to redo" and runs nothing.
NewPushInvalidatesFuture ==
    [][/\ (last'.op \in {"setData", "add_row"} /\ undo_stack' # undo_stack)
            => /\ Len(undo_stack') = Len(undo_stack) + 1
               /\ Front(undo_stack') = undo_stack
               /\ redo_stack' = <<>>
       /\ (last'.op = "setData" /\ last'.ret = "True") => RedoReportsEmpty'
      ]_vars

\* C7 witness: a successful setData right after a done undo
PushAfterUndo ==
    /\ last.op = "setData"
    /\ last.ret = "True"
    /\ last.prev_op = "undo"
    /\ last.prev_ret = "done"
    /\ redo_stack = <<>>

\* C8: after N pushes, then M <= N undos, then K <= M redos, all statements
\* successful, len(undo_stack) = N - M + K and len(redo_stack) = M - K.
HistoryCounts ==
    tally.shape # "off"
        => /\ Len(undo_stack) = tally.n - tally.m + tally.k
           /\ Len(redo_stack) = tally.m - tally.k

\* C8 witness: two pushes, two undos, one redo
TwoPushesTwoUndosOneRedo ==
    tally = [shape |-> "redo", n |-> 2, m |-> 2, k |-> 1]

\* C9: a setData whose UPDATE raises returns False and leaves storage, both
\* stacks and the snapshot as they were.
SetDataAtomicOnFailure ==
    [][(last'.op = "setData" /\ last'.exc)
          => /\ last'.ret = "False"
             /\ storage' = storage
             /\ undo_stack' = undo_stack
             /\ redo_stack' = redo_stack
             /\ model' = model]_vars

\* C9 witness: a setData whose UPDATE raised, with a command in the log
SetDataFailed ==
    /\ last.op = "setData"
    /\ last.exc
    /\ undo_stack # <<>>

\* C10: the forward statement of every command in either stack has run
\* successfully.
LoggedCommandsWereExecuted ==
    Forwards(undo_stack, redo_stack) \subseteq executed

\* C10 witness: commands in both stacks, right after a handler whose statement raised
LogAfterFailedStatement ==
    /\ undo_stack # <<>>
    /\ redo_stack # <<>>
    /\ last.exc

\* C11: a setData on a column of the row identity (the rowid column or a primary
\* key column) returns False, runs no statement, pushes no command and leaves
\* storage and the snapshot as they were.
IdentityGating ==
    [][(last'.op = "setData" /\ IsIdentityColumn(model, seen'.input.args[1]))
          => /\ last'.ret = "False"
             /\ seen'.stmts = <<>>
             /\ storage' = storage
             /\ undo_stack' = undo_stack
             /\ redo_stack' = redo_stack
             /\ model' = model]_vars

\* C11 witness: a setData on a primary key column, with a command in the log
IdentityEditRejected ==
    /\ last.op = "setData"
    /\ seen.input.args[1] \in SeqToSet(model.pk_columns)
    /\ undo_stack # <<>>

\* C12: a setData whose coerced value equals the value the snapshot holds for
\* the cell returns False, runs no statement and leaves both stacks as they were.
NoOpSuppression ==
    [][LET i == seen'.input.row
           col == seen'.input.args[1]
           c == Coerce(ColType(model, col), seen'.input.args[2])
       IN (/\ last'.op = "setData"
           /\ ~IsIdentityColumn(model, col)
           /\ c.ok
           /\ c.value = Get(model.rows[i], col))
             => /\ last'.ret = "False"
                /\ seen'.stmts = <<>>
                /\ storage' = storage
                /\ undo_stack' = undo_stack
                /\ redo_stack' = redo_stack]_vars

\* C12 witness: NULL typed into a cell that holds NULL after an edit, with a
\* command in the log
NullTypedOverNull ==
    /\ last.op = "setData"
    /\ last.ret = "False"
    /\ ~IsIdentityColumn(model, seen.input.args[1])
    /\ IsNullToken(seen.input.args[2])
    /\ Get(model.rows[seen.input.row], seen.input.args[1]) = None
    /\ undo_stack # <<>>

DropColumnKeepsTable ==
    [][(/\ last'.op = "delete_column"
        /\ last'.exc
        /\ model.loaded
        /\ IsTable(storage[db], model.table))
          => /\ IsTable(storage'[db], model.table)
             /\ DOMAIN storage'[db][model.table].rows = DOMAIN storage[db][model.table].rows]_vars

\* C15: loading a listed table for which neither a rowid nor a primary key
\* column is found raises nothing and leaves that table loaded, with an empty
\* row identity.
NoIdentityTableLoads ==
    [][LET item == seen'.input.args[1]
           info == TableSchema(storage, db, item)
       IN (/\ last'.op = "load_table"
           /\ ~HasRowid(storage, db, item)
           /\ \A i \in DOMAIN info : ~info[i].pk)
             => /\ ~last'.exc
                /\ model'.loaded
                /\ model'.table = item
                /\ IdColumns(model') = <<>>]_vars

\* C16: after a successful add_column(name, coltype) the schema map of the model
\* holds name with the declared type coltype.
AddColumnRefreshesSchema ==
    (/\ last.op = "add_column"
     /\ ~last.exc
     /\ seen.stmts # <<>>)
        => /\ seen.input.args[1] \in DOMAIN model.schema
           /\ model.schema[seen.input.args[1]] = seen.input.args[2]

\* C17: the WHERE clause of the statements of setData and delete_rows names the
\* declared primary key columns when the table has any, the rowid only when it
\* has none.
IdentityPriority ==
    (/\ last.op \in {"setData", "delete_rows"}
     /\ model.loaded
     /\ model.pk_columns # <<>>)
        => \A i \in DOMAIN seen.stmts : seen.stmts[i].sql.where = model.pk_columns

\* C18: an undo that follows a successful setData on a cell of table A and then
\* the load of another table B of the same database leaves the rows of B in
\* storage as they were and the cell of A with the value storage held before
\* the setData.
TableAgnosticUndo ==
    [][(/\ last'.op = "undo"
        /\ last'.ret = "done"
        /\ last.op = "load_table"
        /\ ~last.exc
        /\ seen.cell # NoCell
        /\ db = seen.cell.db
        /\ model.db = db
        /\ model.table # seen.cell.table)
          => /\ storage'[db][model.table] = storage[db][model.table]
             /\ CellValue(storage', seen.cell) = seen.before]_vars

\* C19: delete_rows, add_column, delete_column, the SQL console and load_table
\* (which builds a model and refreshes it) leave undo_stack and redo_stack
\* exactly as they were, whether the handler succeeds, is rejected or raises.
SchemaAndRowOpsKeepHistory ==
    [][last'.op \in {"delete_rows", "add_column", "delete_column", "exec_sql", "load_table"}
          => /\ undo_stack' = undo_stack
             /\ redo_stack' = redo_stack]_vars

\* a row was deleted while a command was waiting to be redone
RowDeletedWithPendingRedo ==
    /\ last.op = "delete_rows"
    /\ ~last.exc
    /\ seen.stmts # <<>>
    /\ redo_stack # <<>>

\* C20: every handler the caller can invoke on the editor (load_table, setData,
\* add_row, delete_rows, add_column, delete_column, undo, redo, the SQL
\* console) appends at least one line to the log, and exactly one when it was
\* rejected, failed, or succeeded in changing storage.
OneLogLinePerInvocation ==
    last.op \in {"load_table", "setData", "add_row", "delete_rows", "add_column",
                 "delete_column", "undo", "redo", "exec_sql"}
        => /\ Len(seen.logs) >= 1
           /\ (last.op = "load_table" /\ ~last.exc) \/ Len(seen.logs) = 1

\* C21: an undo on an empty undo_stack and a redo on an empty redo_stack execute
\* no statement, leave storage and both stacks as they were, put an error line
\* (not a traceback) first in the log, and the call itself raises nothing.
EmptyHistoryReported ==
    [][(\/ last'.op = "undo" /\ undo_stack = <<>>
        \/ last'.op = "redo" /\ redo_stack = <<>>)
          => /\ seen'.stmts = <<>>
             /\ storage' = storage
             /\ undo_stack' = undo_stack
             /\ redo_stack' = redo_stack
             /\ seen'.logs # <<>>
             /\ seen'.logs[1].error
             /\ seen'.logs[1] # LogException
             /\ last'.ret # "raised"]_vars

\* a redo found nothing to redo while a command was waiting to be undone
RedoOnEmptyStack ==
    /\ last.op = "redo"
    /\ last.ret = "empty"
    /\ undo_stack # <<>>
    /\ seen.logs = <<Log("Nothing to redo", TRUE)>>

\* SQLiteTableModel.__init__: the table has a rowid or a primary key column
HasIdentity(st, path, table) ==
    /\ path # ""
    /\ \/ HasRowid(st, path, table)
       \/ \E i \in DOMAIN TableSchema(st, path, table) : TableSchema(st, path, table)[i].pk

LifoReplay ==
    LET r == seen.run IN
    /\ r.phase \in {"undo", "redo"} => r.in_order
    /\ (r.phase = "undo" /\ r.m = r.n)
          => \A c \in r.cells : CellValue(storage, c) = CellValue(r.start, c)
    /\ (r.phase = "redo" /\ r.k = r.n)
          => \A c \in r.cells : CellValue(storage, c) = CellValue(r.end, c)

\* C24: the statement an undo or a redo executes runs on the connection to the
\* database where the command's forward statement was first executed, and the
\* statement of a setData runs on the database the window has open.
SameConnectionReplay ==
    [][/\ (last'.op = "undo" /\ seen'.stmts # <<>>) => Top(seen.undo_home) = db
       /\ (last'.op = "redo" /\ seen'.stmts # <<>>) => Top(seen.redo_home) = db
       /\ (last'.op = "setData" /\ seen'.stmts # <<>>) => model.db = db]_vars

\* C25: a delete_rows that completes removes from the model's table exactly the
\* rows shown at the selected positions of the view, whatever the sort order
\* and the filter of the proxy.
DeleteRemovesSelectedRows ==
    [][(/\ last'.op = "delete_rows"
        /\ ~last'.exc
        /\ model.loaded
        /\ model.db = db)
          => LET shown == ProxyRows(model, proxy)
                 picked == {CellKey(storage, model, shown[v]) : v \in seen'.input.rows}
             IN RowidsOf(storage', db, model.table)
                   = RowidsOf(storage, db, model.table) \ picked]_vars

====
